---- MODULE Spec2Model ----
(***************************************************************************)
(* A model of the VirusTotal enrichment worker src/vt.py: the three        *)
(* indicator handlers (handle_hexdigest, handle_ip, handle_domain), the    *)
(* verdict classification they rest on (name_extraction, is_adware, the    *)
(* heuristic tally and its vote) and the no_ssl_verification context       *)
(* manager.                                                                *)
(*                                                                         *)
(* Python strings that the code inspects (verdict strings, labels) are     *)
(* sequences of one-character strings, so that lower(), the `in` substring *)
(* test and the two regular expressions are computed character by          *)
(* character.  Strings the code only passes along (engine identifiers,     *)
(* addresses, host names, digests) are TLA+ strings.  A Python Optional    *)
(* is a sequence of length 0 (None) or 1.                                  *)
(***************************************************************************)
EXTENDS Integers, Sequences, FiniteSets, Bags

VARIABLES
    mode,             \* args.hexdigest / args.ip / args.domain
    in_data,          \* the indicator read from stdin
    pc,               \* the position of the process
    exc,              \* the exception that ended the run ("none" while there is none)
    exit_status,      \* the exit status of the process; -1 while it runs
    response,         \* the local variable response of the handler
    todo,             \* the items the current for loop has not visited yet
    names,            \* handle_hexdigest: names
    kind,             \* handle_hexdigest: kind, the Counter, as its items in insertion order
    voted,            \* the key handle_hexdigest takes from kind.most_common()[0][0]
    facts,            \* the facts written to the sink (a bag)
    session_request,  \* requests.Session.request
    warn_filters,     \* the state of the warnings filters
    ip_type,          \* handle_ip: ip_type
    runs              \* the results of finished classification runs (SpecClassify)

vars == << mode, in_data, pc, exc, exit_status, response, todo, names, kind,
           voted, facts, session_request, warn_filters, ip_type, runs >>

----------------------------------------------------------------------------
(* Bounds of the model *)

\* the most engines in the scans of a file report
MaxEngines == 2
\* the most entries in the resolutions list of a report
MaxResolutions == 2
\* the most entries in each sample list of a report
MaxSamples == 1

----------------------------------------------------------------------------
(* Program constants *)

AV_HEURISTICS ==
  << <<"t", "r", "o", "j", "a", "n">>,
     <<"a", "d", "w", "a", "r", "e">>,
     <<"d", "r", "o", "p", "p", "e", "r">>,
     <<"m", "i", "n", "e", "r">>,
     <<"b", "a", "c", "k", "d", "o", "o", "r">>,
     <<"m", "a", "l", "w", "a", "r", "e">>,
     <<"d", "o", "w", "n", "l", "o", "a", "d", "e", "r">>,
     <<"r", "a", "t">>,
     <<"h", "a", "c", "k", "t", "o", "o", "l">>,
     <<"r", "a", "n", "s", "o", "m", "w", "a", "r", "e">>,
     <<"c", "r", "y", "p", "t", "o", "l", "o", "c", "k", "e", "r">>,
     <<"b", "a", "n", "k", "e", "r">>,
     <<"f", "i", "n", "a", "n", "c", "i", "a", "l">>,
     <<"e", "i", "c", "a", "r">>,
     <<"s", "c", "a", "n", "n", "e", "r">> >>

ADWARE_OVERRIDES ==
  << <<"o", "p", "e", "n", "c", "a", "n", "d", "y">>,
     <<"m", "o", "n", "e", "t", "i", "z", "e">>,
     <<"a", "d", "l", "o", "a", "d">>,
     <<"s", "o", "m", "o", "t", "o">> >>

----------------------------------------------------------------------------
(* The inputs the model draws from *)

\* "Trojan:Win32/Occamy.C"
R_Occamy == <<"T", "r", "o", "j", "a", "n", ":", "W", "i", "n", "3", "2", "/", "O", "c", "c", "a", "m", "y", ".", "C">>

\* "Adware.Win32.OpenCandy.a"
R_OpenCandy == <<"A", "d", "w", "a", "r", "e", ".", "W", "i", "n", "3", "2", ".", "O", "p", "e", "n", "C", "a", "n", "d", "y", ".", "a">>

\* "Trojan:Win32/": the string ends right after the '/'
R_NoName == <<"T", "r", "o", "j", "a", "n", ":", "W", "i", "n", "3", "2", "/">>

\* "": the empty string
R_Empty == <<>>

\* "Dropper.Trojan:Trojan/.x": two categories, one of them twice, '.' directly after the '/'
R_Multi == <<"D", "r", "o", "p", "p", "e", "r", ".", "T", "r", "o", "j", "a", "n", ":", "T", "r", "o", "j", "a", "n", "/", ".", "x">>

\* "a:b:c/d/e.f": more colons and slashes than the grammar has
R_Extra == <<"a", ":", "b", ":", "c", "/", "d", "/", "e", ".", "f">>

L_occamy == <<"o", "c", "c", "a", "m", "y">>
L_adware == <<"a", "d", "w", "a", "r", "e">>
L_trojan == <<"t", "r", "o", "j", "a", "n">>

\* the engine identifiers of a file report
Engines == {"Microsoft", "Kaspersky", "EngineA", "EngineB"}

\* the (detected, result) bodies an engine of a file report may carry
Bodies ==
    { [detected |-> TRUE, result |-> r] :
        r \in {R_Occamy, R_OpenCandy, R_NoName, R_Multi, R_Empty, R_Extra} }
    \cup { [detected |-> FALSE, result |-> R_NoName] }

----------------------------------------------------------------------------
(* Strings *)

UPPER == <<"A", "B", "C", "D", "E", "F", "G", "H", "I", "J", "K", "L", "M", "N", "O", "P", "Q", "R", "S", "T", "U", "V", "W", "X", "Y", "Z">>
LOWER == <<"a", "b", "c", "d", "e", "f", "g", "h", "i", "j", "k", "l", "m", "n", "o", "p", "q", "r", "s", "t", "u", "v", "w", "x", "y", "z">>

UpperChars == { UPPER[i] : i \in 1..Len(UPPER) }

\* the lower-case letter of every upper-case letter
LowerOf == [c \in UpperChars |-> LOWER[CHOOSE i \in 1..Len(UPPER) : UPPER[i] = c]]

\* str.lower() on one character
LowerChar(c) == IF c \in UpperChars THEN LowerOf[c] ELSE c

\* str.lower()
Lower(s) == [i \in 1..Len(s) |-> LowerChar(s[i])]

\* `sub in s` on strings
Contains(sub, s) ==
    \E i \in 1..(Len(s) - Len(sub) + 1) :
        \A j \in 1..Len(sub) : s[i + j - 1] = sub[j]

\* the least index >= from at which s holds the character c; 0 when there is none
IndexFrom(s, c, from) ==
    IF \E i \in from..Len(s) : s[i] = c
    THEN CHOOSE i \in from..Len(s) : s[i] = c /\ \A j \in from..(i - 1) : s[j] # c
    ELSE 0

\* the end of the longest run of characters outside `stop` that starts at `from`
\* (from - 1 when the run is empty)
RunEnd(s, from, stop) ==
    IF \E i \in from..Len(s) : s[i] \in stop
    THEN (CHOOSE i \in from..Len(s) :
              s[i] \in stop /\ \A j \in from..(i - 1) : s[j] \notin stop) - 1
    ELSE Len(s)

----------------------------------------------------------------------------
(* The two vendor grammars.  A match is [matched, group], group the Optional *)
(* that match.groups() holds at the index the code reads.                    *)

NoMatch == [matched |-> FALSE, group |-> <<>>]

\* MS_RE.match(s), with groups()[2]:
\*   (.*?):(.*?)\/(?:([^!.]+))?(?:[!.](\w+))?
\* The lazy groups stop at the first ':' and at the first '/' after it; what
\* follows the '/' is optional, so these two decide the match. Group 3 is the
\* longest run without '!' and '.' after the '/', and does not take part (None)
\* when that run is empty.
MS_RE_match(s) ==
    LET colon == IndexFrom(s, ":", 1)
        slash == IF colon = 0 THEN 0 ELSE IndexFrom(s, "/", colon + 1)
        last  == RunEnd(s, slash + 1, {"!", "."})
    IN  IF colon = 0 \/ slash = 0 THEN NoMatch
        ELSE [matched |-> TRUE,
              group   |-> IF last >= slash + 1
                          THEN << SubSeq(s, slash + 1, last) >>
                          ELSE <<>>]

\* the places (j, k) of the two literal dots of KASPERSKY_RE when group 3
\* starts at `start`: each lazy group holds at least one character and the
\* character after the second dot is not a dot
KasperskyDots(s, start) ==
    { jk \in (1..Len(s)) \X (1..Len(s)) :
        /\ jk[1] >= start + 1 /\ s[jk[1]] = "."
        /\ jk[2] >= jk[1] + 2 /\ s[jk[2]] = "."
        /\ jk[2] + 1 <= Len(s) /\ s[jk[2] + 1] # "." }

\* group 5 of KASPERSKY_RE when group 3 starts at `start`: the lazy groups take
\* the first j, then the first k, that let the rest match
KasperskyGroup5(s, start) ==
    LET dots == KasperskyDots(s, start)
        jk   == CHOOSE d \in dots :
                    \A e \in dots : d[1] < e[1] \/ (d[1] = e[1] /\ d[2] <= e[2])
    IN  SubSeq(s, jk[2] + 1, RunEnd(s, jk[2] + 1, {"."}))

\* KASPERSKY_RE.match(s), with groups()[4]:
\*   ((.+?):)?(.+?)\.(.+?)\.([^.]+)(\.(.+))?
\* The optional prefix is tried first, at each ':' from the left that has a
\* character before it; only when the rest matches after none of them is the
\* prefix left out.
KASPERSKY_RE_match(s) ==
    LET prefixes == { i \in 2..Len(s) :
                        s[i] = ":" /\ KasperskyDots(s, i + 1) # {} }
        first    == CHOOSE i \in prefixes : \A j \in prefixes : i <= j
    IN  IF prefixes # {}
        THEN [matched |-> TRUE, group |-> << KasperskyGroup5(s, first + 1) >>]
        ELSE IF KasperskyDots(s, 1) # {}
        THEN [matched |-> TRUE, group |-> << KasperskyGroup5(s, 1) >>]
        ELSE NoMatch

----------------------------------------------------------------------------
(* Classification: name_extraction, is_adware, the tally and the vote *)

\* group.lower() on an Optional group: None has no lower() (AttributeError)
LowerOfGroup(group) ==
    IF group = <<>>
    THEN [raised |-> TRUE, value |-> <<>>]
    ELSE [raised |-> FALSE, value |-> << Lower(group[1]) >>]

\* name_extraction with the engine test of the first grammar left out
name_extraction_any_engine(engine, body) ==
    LET ms == MS_RE_match(body.result)
        ks == KASPERSKY_RE_match(body.result)
    IN  IF ms.matched
        THEN LowerOfGroup(ms.group)
        ELSE IF engine = "Kaspersky" /\ ks.matched
        THEN LowerOfGroup(ks.group)
        ELSE [raised |-> FALSE, value |-> <<>>]

\* name_extraction(engine, body): [raised, value], value the Optional returned
name_extraction(engine, body) ==
    LET ms == MS_RE_match(body.result)
        ks == KASPERSKY_RE_match(body.result)
    IN  IF engine = "Microsoft" /\ ms.matched
        THEN LowerOfGroup(ms.group)
        ELSE IF engine = "Kaspersky" /\ ks.matched
        THEN LowerOfGroup(ks.group)
        ELSE [raised |-> FALSE, value |-> <<>>]

\* is_adware(text)
is_adware(text) ==
    \E i \in 1..Len(ADWARE_OVERRIDES) : Contains(ADWARE_OVERRIDES[i], text)

\* the keys of the Counter
KindKeys(k) == { k[i].key : i \in 1..Len(k) }

\* kind[heur]: a Counter reads 0 for a key it does not hold
KindGet(k, heur) ==
    IF heur \in KindKeys(k)
    THEN k[CHOOSE i \in 1..Len(k) : k[i].key = heur].n
    ELSE 0

\* kind[heur] += 1: a new key goes to the end of the dict
KindIncrement(k, heur) ==
    IF heur \in KindKeys(k)
    THEN [i \in 1..Len(k) |->
            IF k[i].key = heur THEN [key |-> heur, n |-> k[i].n + 1] ELSE k[i]]
    ELSE Append(k, [key |-> heur, n |-> 1])

\* for heur in AV_HEURISTICS: if heur in res: kind[heur] += 1   (from index i on)
RECURSIVE CountVotes(_, _, _)
CountVotes(k, res, i) ==
    IF i > Len(AV_HEURISTICS) THEN k
    ELSE CountVotes(IF Contains(AV_HEURISTICS[i], res)
                    THEN KindIncrement(k, AV_HEURISTICS[i])
                    ELSE k,
                    res, i + 1)

\* most_common with a sort that is not stable: items of equal count come out
\* in the reverse of their dict order
most_common_unstable(k) ==
    LET rank(i) == 1 + Cardinality({ j \in 1..Len(k) :
                        k[j].n > k[i].n \/ (k[j].n = k[i].n /\ j > i) })
    IN  [r \in 1..Len(k) |-> k[CHOOSE i \in 1..Len(k) : rank(i) = r]]

\* most_common with reverse=True left out: the least count comes first
most_common_ascending(k) ==
    LET rank(i) == 1 + Cardinality({ j \in 1..Len(k) :
                        k[j].n < k[i].n \/ (k[j].n = k[i].n /\ j < i) })
    IN  [r \in 1..Len(k) |-> k[CHOOSE i \in 1..Len(k) : rank(i) = r]]

\* kind.most_common(): sorted(items, key=count, reverse=True), a stable sort,
\* so items of equal count keep their dict order
most_common(k) ==
    LET rank(i) == 1 + Cardinality({ j \in 1..Len(k) :
                        k[j].n > k[i].n \/ (k[j].n = k[i].n /\ j < i) })
    IN  [r \in 1..Len(k) |-> k[CHOOSE i \in 1..Len(k) : rank(i) = r]]

\* the pass of the engine loop without `if not body['detected']: continue`
EngineStep_NoDetectedCheck(nms, k, engine, body) ==
    LET ext == name_extraction(engine, body)
        res == Lower(body.result)
        n1  == IF ext.value # <<>> /\ ext.value[1] # <<>>
               THEN nms \cup {ext.value[1]} ELSE nms
        n2  == IF is_adware(res) THEN n1 \cup {L_adware} ELSE n1
    IN  IF ext.raised THEN [raised |-> TRUE, names |-> nms, kind |-> k]
        ELSE [raised |-> FALSE, names |-> n2, kind |-> CountVotes(k, res, 1)]

\* one pass of the engine loop of handle_hexdigest over (engine, body)
EngineStep(nms, k, engine, body) ==
    LET ext == name_extraction(engine, body)
        res == Lower(body.result)
        n1  == IF ext.value # <<>> /\ ext.value[1] # <<>>
               THEN nms \cup {ext.value[1]} ELSE nms
        n2  == IF is_adware(res) THEN n1 \cup {L_adware} ELSE n1
    IN  IF ~body.detected THEN [raised |-> FALSE, names |-> nms, kind |-> k]
        ELSE IF ext.raised THEN [raised |-> TRUE, names |-> nms, kind |-> k]
        ELSE [raised |-> FALSE, names |-> n2, kind |-> CountVotes(k, res, 1)]

\* if kind: names.add(kind.most_common()[0][0])   -- the Optional key added
Vote(k) == IF k # <<>> THEN << most_common(k)[1].key >> ELSE <<>>

\* the engine loop over the items of scans, from the state (nms, k)
RECURSIVE EngineLoop(_, _, _)
RECURSIVE EngineLoopRest(_, _)

\* after the pass that left s: the exception leaves the loop, or the loop goes
\* on over the remaining items
EngineLoopRest(s, items) ==
    IF s.raised THEN s ELSE EngineLoop(s.names, s.kind, Tail(items))

EngineLoop(nms, k, items) ==
    IF items = <<>> THEN [raised |-> FALSE, names |-> nms, kind |-> k]
    ELSE EngineLoopRest(EngineStep(nms, k, items[1].engine, items[1].body),
                        items)

\* the classification of handle_hexdigest, from names = set() and
\* kind = Counter() to the vote: the labels before the vote, the tally, the key
\* the vote adds and the final label set
ClassifyOutcome(l, v) ==
    [raised |-> l.raised,
     base   |-> l.names,
     kind   |-> l.kind,
     voted  |-> IF l.raised THEN <<>> ELSE v,
     labels |-> IF l.raised THEN {}
                ELSE l.names \cup { v[i] : i \in 1..Len(v) }]

\* the vote, after the engine loop has left l
ClassifyVote(l) == ClassifyOutcome(l, Vote(l.kind))

Classify(items) == ClassifyVote(EngineLoop({}, <<>>, items))

----------------------------------------------------------------------------
(* The upstream reports the model draws from *)

\* the sequences over S of length at most n
SeqsUpTo(S, n) == UNION { [1..k -> S] : k \in 0..n }

\* the scans dict of a file report, as its items in dict order: engine keys
\* are distinct
ScansDicts ==
    { s \in SeqsUpTo([engine : Engines, body : Bodies], MaxEngines) :
        \A i, j \in 1..Len(s) : i # j => s[i].engine # s[j].engine }

\* get_file_report: no `results`, `results` without `scans`, or a scans dict
FileReports ==
    { [error |-> "x"], [results |-> [response_code |-> 0]] }
    \cup { [results |-> [scans |-> s]] : s \in ScansDicts }

HexDigests == {"d41d8cd9"}
Domains    == {"example.com"}
Hostnames  == {"dns.google", "example.com"}
Digests    == {"aa11", "bb22"}
Addresses  == {"8.8.8.8", "2001:db8::1", "not-an-ip"}

\* ipaddress.ip_address(ip): 4 for an IPv4Address, 6 for an IPv6Address,
\* 0 when it raises ValueError
IpVersion(ip) ==
    IF ip = "8.8.8.8" THEN 4 ELSE IF ip = "2001:db8::1" THEN 6 ELSE 0

SampleLists == SeqsUpTo([sha256 : Digests], MaxSamples)

\* the `results` of an IP or domain report: each of the three lists may be
\* missing; `entries` are the resolution lists of the report
ReportResults(entries) ==
    { [k \in ks |-> IF k = "resolutions" THEN r
                    ELSE IF k = "detected_downloaded_samples" THEN d ELSE c] :
        ks \in SUBSET {"resolutions", "detected_downloaded_samples",
                       "detected_communicating_samples"},
        r \in entries, d \in SampleLists, c \in SampleLists }

\* get_ip_report
IpReports ==
    { [error |-> "x"] }
    \cup { [results |-> res] :
             res \in ReportResults(SeqsUpTo([hostname : Hostnames], MaxResolutions)) }

\* get_domain_report
DomainReports ==
    { [error |-> "x"] }
    \cup { [results |-> res] :
             res \in ReportResults(SeqsUpTo([ip_address : Addresses], MaxResolutions)) }

Reports(m) ==
    IF m = "hexdigest" THEN FileReports
    ELSE IF m = "ip" THEN IpReports ELSE DomainReports

\* d[k] if k in d, else the empty list
ListOf(d, k) == IF k \in DOMAIN d THEN d[k] ELSE <<>>

----------------------------------------------------------------------------
(* Facts *)

\* actapi.fact(kind, subtype).source(...).destination(...)
Fact(k, sub, src, dst) ==
    [kind |-> k, subtype |-> sub, source |-> src, destination |-> dst]

\* .add(): one more copy of the fact at the sink
Add(bag, f) == bag (+) SetToBag({f})

\* the isTool fact with source and destination exchanged
ToolFact_Swapped(hexdigest, name) ==
    Fact("isTool", <<"vt">>, <<"tool", name>>, <<"hash", hexdigest>>)

\* actapi.fact("isTool", "vt").source("hash", hexdigest).destination("tool", name)
ToolFact(hexdigest, name) ==
    Fact("isTool", <<"vt">>, <<"hash", hexdigest>>, <<"tool", name>>)


----------------------------------------------------------------------------
(* The state machine *)

NoResponse == [pending |-> TRUE]

Init ==
    /\ mode \in {"hexdigest", "ip", "domain"}
    /\ in_data \in (IF mode = "hexdigest" THEN HexDigests
                    ELSE IF mode = "ip" THEN Addresses ELSE Domains)
    /\ pc = "main"
    /\ exc = "none"
    /\ exit_status = -1
    /\ response = NoResponse
    /\ todo = <<>>
    /\ names = {}
    /\ kind = <<>>
    /\ voted = <<>>
    /\ facts = EmptyBag
    /\ session_request = "original"
    /\ warn_filters = "default"
    /\ ip_type = "none"
    /\ runs = <<>>

\* an exception leaves the handler and main; the top level logs and re-raises
Raise(e) == pc' = "raised" /\ exc' = e /\ exit_status' = 1

\* sys.exit(1)
SysExit == pc' = "exit" /\ exc' = "SystemExit" /\ exit_status' = 1

\* the handler returns, main returns, the process ends
Return == pc' = "done" /\ exc' = exc /\ exit_status' = 0

\* no_ssl_verification, up to its yield
SslEnter == session_request' = "patched" /\ warn_filters' = "ignore"

\* no_ssl_verification, after its yield
SslExit == session_request' = "original" /\ warn_filters' = "reset"

\* main calls handle_hexdigest; names = set(), kind = Counter(), the with
\* block is entered
HexdigestCall ==
    /\ pc = "main" /\ mode = "hexdigest"
    /\ names' = {} /\ kind' = <<>>
    /\ SslEnter
    /\ pc' = "query"
    /\ UNCHANGED << mode, in_data, exc, exit_status, response, todo, voted,
                    facts, ip_type, runs >>

\* main calls handle_domain; the with block is entered
DomainCall ==
    /\ pc = "main" /\ mode = "domain"
    /\ SslEnter
    /\ pc' = "query"
    /\ UNCHANGED << mode, in_data, exc, exit_status, response, todo, names,
                    kind, voted, facts, ip_type, runs >>

\* main calls handle_ip: an address that does not parse returns at once,
\* before any query
IpCall ==
    /\ pc = "main" /\ mode = "ip"
    /\ IF IpVersion(in_data) = 0
       THEN /\ Return
            /\ UNCHANGED << ip_type, session_request, warn_filters >>
       ELSE /\ ip_type' = (IF IpVersion(in_data) = 4 THEN "ipv4" ELSE "ipv6")
            /\ SslEnter
            /\ pc' = "query"
            /\ UNCHANGED << exc, exit_status >>
    /\ UNCHANGED << mode, in_data, response, todo, names, kind, voted, facts,
                    runs >>

\* vtapi.get_*_report returns: the with block ends and the generator runs on
\* past its yield
QueryReturns ==
    /\ pc = "query"
    /\ \E r \in Reports(mode) : response' = r
    /\ SslExit
    /\ pc' = "check"
    /\ UNCHANGED << mode, in_data, exc, exit_status, todo, names, kind, voted,
                    facts, ip_type, runs >>

\* vtapi.get_*_report raises: the exception is thrown into the generator at
\* its yield, which has no try/finally, so the code after the yield never runs
QueryRaises ==
    /\ pc = "query"
    /\ Raise("QueryError")
    /\ UNCHANGED << mode, in_data, response, todo, names, kind, voted, facts,
                    session_request, warn_filters, ip_type, runs >>

\* the test written as response['results']['scans'], which raises on
\* either missing key
HexCheckOutcome_Strict(r) ==
    IF "results" \notin DOMAIN r THEN "KeyError"
    ELSE IF "scans" \notin DOMAIN r.results THEN "KeyError"
    ELSE "loop"

\* 'scans' not in response['results']
HexCheckOutcome(r) ==
    IF "results" \notin DOMAIN r THEN "KeyError"
    ELSE IF "scans" \notin DOMAIN r.results THEN "return"
    ELSE "loop"

HexCheck ==
    /\ pc = "check" /\ mode = "hexdigest"
    /\ IF HexCheckOutcome(response) = "KeyError"
       THEN Raise("KeyError") /\ todo' = todo
       ELSE IF HexCheckOutcome(response) = "return"
       THEN Return /\ todo' = todo
       ELSE /\ todo' = response.results.scans
            /\ pc' = "hex_loop"
            /\ UNCHANGED << exc, exit_status >>
    /\ UNCHANGED << mode, in_data, response, names, kind, voted, facts,
                    session_request, warn_filters, ip_type, runs >>

\* the pass of the engine loop that writes the adware fact to the sink as
\* soon as an override matches, instead of after the loop
HexEngine_EagerEmit ==
    /\ pc = "hex_loop" /\ todo # <<>>
    /\ LET s == EngineStep(names, kind, todo[1].engine, todo[1].body)
       IN  IF s.raised
           THEN Raise("AttributeError") /\ UNCHANGED << todo, names, kind, facts >>
           ELSE /\ names' = s.names /\ kind' = s.kind /\ todo' = Tail(todo)
                /\ facts' = IF L_adware \in s.names \ names
                            THEN Add(facts, ToolFact(in_data, L_adware))
                            ELSE facts
                /\ UNCHANGED << pc, exc, exit_status >>
    /\ UNCHANGED << mode, in_data, response, voted, session_request,
                    warn_filters, ip_type, runs >>

\* one pass of: for engine, body in response['results']['scans'].items()
HexEngine ==
    /\ pc = "hex_loop" /\ todo # <<>>
    /\ LET s == EngineStep(names, kind, todo[1].engine, todo[1].body)
       IN  IF s.raised
           THEN Raise("AttributeError") /\ UNCHANGED << todo, names, kind >>
           ELSE /\ names' = s.names /\ kind' = s.kind /\ todo' = Tail(todo)
                /\ UNCHANGED << pc, exc, exit_status >>
    /\ UNCHANGED << mode, in_data, response, voted, facts, session_request,
                    warn_filters, ip_type, runs >>

\* the engine loop is over: the vote, then the loop over names begins (todo
\* holds the names not visited yet, a set)
HexVote ==
    /\ pc = "hex_loop" /\ todo = <<>>
    /\ voted' = Vote(kind)
    /\ names' = names \cup { voted'[i] : i \in 1..Len(voted') }
    /\ todo' = names'
    /\ pc' = "hex_emit"
    /\ UNCHANGED << mode, in_data, exc, exit_status, response, kind, facts,
                    session_request, warn_filters, ip_type, runs >>

\* one pass of: for name in names (a set: any order)
HexEmit ==
    /\ pc = "hex_emit"
    /\ \E name \in todo :
        /\ facts' = Add(facts, ToolFact(in_data, name))
        /\ todo' = todo \ {name}
    /\ UNCHANGED << mode, in_data, pc, exc, exit_status, response, names, kind,
                    voted, session_request, warn_filters, ip_type, runs >>

HexReturn ==
    /\ pc = "hex_emit" /\ todo = {}
    /\ Return
    /\ UNCHANGED << mode, in_data, response, todo, names, kind, voted, facts,
                    session_request, warn_filters, ip_type, runs >>

\* results = response['results'], or print and sys.exit(1); then the loop
\* over results['resolutions'] begins
IpCheck ==
    /\ pc = "check" /\ mode = "ip"
    /\ IF "results" \notin DOMAIN response
       THEN SysExit /\ todo' = todo
       ELSE /\ todo' = ListOf(response.results, "resolutions")
            /\ pc' = "ip_resolutions"
            /\ UNCHANGED << exc, exit_status >>
    /\ UNCHANGED << mode, in_data, response, names, kind, voted, facts,
                    session_request, warn_filters, ip_type, runs >>

\* one pass of: for resolution in results['resolutions']
IpResolution ==
    /\ pc = "ip_resolutions" /\ todo # <<>>
    /\ facts' = Add(facts, Fact("DNSRecord", <<"A">>,
                                <<"fqdn", todo[1].hostname>>, <<ip_type, in_data>>))
    /\ todo' = Tail(todo)
    /\ UNCHANGED << mode, in_data, pc, exc, exit_status, response, names, kind,
                    voted, session_request, warn_filters, ip_type, runs >>

IpResolutionsEnd ==
    /\ pc = "ip_resolutions" /\ todo = <<>>
    /\ todo' = ListOf(response.results, "detected_downloaded_samples")
    /\ pc' = "ip_downloaded"
    /\ UNCHANGED << mode, in_data, exc, exit_status, response, names, kind,
                    voted, facts, session_request, warn_filters, ip_type, runs >>

\* one pass of: for sample in results['detected_downloaded_samples']
IpDownloaded ==
    /\ pc = "ip_downloaded" /\ todo # <<>>
    /\ facts' = Add(facts, Fact("observation", <<>>,
                                <<"hash", todo[1].sha256>>, <<ip_type, in_data>>))
    /\ todo' = Tail(todo)
    /\ UNCHANGED << mode, in_data, pc, exc, exit_status, response, names, kind,
                    voted, session_request, warn_filters, ip_type, runs >>

IpDownloadedEnd ==
    /\ pc = "ip_downloaded" /\ todo = <<>>
    /\ todo' = ListOf(response.results, "detected_communicating_samples")
    /\ pc' = "ip_communicating"
    /\ UNCHANGED << mode, in_data, exc, exit_status, response, names, kind,
                    voted, facts, session_request, warn_filters, ip_type, runs >>

\* one pass of: for sample in results['detected_communicating_samples']
IpCommunicating ==
    /\ pc = "ip_communicating" /\ todo # <<>>
    /\ facts' = Add(facts, Fact("usesC2", <<ip_type>>,
                                <<"hash", todo[1].sha256>>, <<ip_type, in_data>>))
    /\ todo' = Tail(todo)
    /\ UNCHANGED << mode, in_data, pc, exc, exit_status, response, names, kind,
                    voted, session_request, warn_filters, ip_type, runs >>

IpReturn ==
    /\ pc = "ip_communicating" /\ todo = <<>>
    /\ Return
    /\ UNCHANGED << mode, in_data, response, todo, names, kind, voted, facts,
                    session_request, warn_filters, ip_type, runs >>

\* results = response['results'], or print and sys.exit(1); then the loop
\* over results['resolutions'] begins
DomainCheck ==
    /\ pc = "check" /\ mode = "domain"
    /\ IF "results" \notin DOMAIN response
       THEN SysExit /\ todo' = todo
       ELSE /\ todo' = ListOf(response.results, "resolutions")
            /\ pc' = "domain_resolutions"
            /\ UNCHANGED << exc, exit_status >>
    /\ UNCHANGED << mode, in_data, response, names, kind, voted, facts,
                    session_request, warn_filters, ip_type, runs >>

\* the pass over a resolution without the try/except around
\* ipaddress.ip_address: the ValueError leaves the handler
DomainResolution_Uncaught ==
    /\ pc = "domain_resolutions" /\ todo # <<>>
    /\ LET ip == todo[1].ip_address
       IN  IF IpVersion(ip) = 0
           THEN Raise("ValueError") /\ UNCHANGED << facts, todo >>
           ELSE /\ facts' = Add(facts,
                      Fact("DNSRecord", <<"A">>, <<"fqdn", in_data>>,
                           << IF IpVersion(ip) = 4 THEN "ipv4" ELSE "ipv6", ip >>))
                /\ todo' = Tail(todo)
                /\ UNCHANGED << pc, exc, exit_status >>
    /\ UNCHANGED << mode, in_data, response, names, kind, voted,
                    session_request, warn_filters, ip_type, runs >>

\* one pass of: for resolution in results['resolutions']; an address that
\* ipaddress.ip_address rejects (ValueError) is passed over
DomainResolution ==
    /\ pc = "domain_resolutions" /\ todo # <<>>
    /\ LET ip == todo[1].ip_address
       IN  IF IpVersion(ip) = 0
           THEN facts' = facts
           ELSE facts' = Add(facts,
                    Fact("DNSRecord", <<"A">>, <<"fqdn", in_data>>,
                         << IF IpVersion(ip) = 4 THEN "ipv4" ELSE "ipv6", ip >>))
    /\ todo' = Tail(todo)
    /\ UNCHANGED << mode, in_data, pc, exc, exit_status, response, names, kind,
                    voted, session_request, warn_filters, ip_type, runs >>

DomainResolutionsEnd ==
    /\ pc = "domain_resolutions" /\ todo = <<>>
    /\ todo' = ListOf(response.results, "detected_downloaded_samples")
    /\ pc' = "domain_downloaded"
    /\ UNCHANGED << mode, in_data, exc, exit_status, response, names, kind,
                    voted, facts, session_request, warn_filters, ip_type, runs >>

\* one pass of: for sample in results['detected_downloaded_samples']
DomainDownloaded ==
    /\ pc = "domain_downloaded" /\ todo # <<>>
    /\ facts' = Add(facts, Fact("observation", <<>>,
                                <<"hash", todo[1].sha256>>, <<"fqdn", in_data>>))
    /\ todo' = Tail(todo)
    /\ UNCHANGED << mode, in_data, pc, exc, exit_status, response, names, kind,
                    voted, session_request, warn_filters, ip_type, runs >>

DomainDownloadedEnd ==
    /\ pc = "domain_downloaded" /\ todo = <<>>
    /\ todo' = ListOf(response.results, "detected_communicating_samples")
    /\ pc' = "domain_communicating"
    /\ UNCHANGED << mode, in_data, exc, exit_status, response, names, kind,
                    voted, facts, session_request, warn_filters, ip_type, runs >>

\* one pass of: for sample in results['detected_communicating_samples']
DomainCommunicating ==
    /\ pc = "domain_communicating" /\ todo # <<>>
    /\ facts' = Add(facts, Fact("usesC2", <<"fqdn">>,
                                <<"hash", todo[1].sha256>>, <<"fqdn", in_data>>))
    /\ todo' = Tail(todo)
    /\ UNCHANGED << mode, in_data, pc, exc, exit_status, response, names, kind,
                    voted, session_request, warn_filters, ip_type, runs >>

DomainReturn ==
    /\ pc = "domain_communicating" /\ todo = <<>>
    /\ Return
    /\ UNCHANGED << mode, in_data, response, todo, names, kind, voted, facts,
                    session_request, warn_filters, ip_type, runs >>

\* the positions at which the next step writes a fact to the sink
Emitting ==
    \/ pc = "hex_emit" /\ todo # {}
    \/ /\ pc \in {"ip_resolutions", "ip_downloaded", "ip_communicating",
                  "domain_downloaded", "domain_communicating"}
       /\ todo # <<>>
    \/ /\ pc = "domain_resolutions" /\ todo # <<>>
       /\ IpVersion(todo[1].ip_address) # 0

\* .add() raises (the sink is unreachable or refuses the fact): the exception
\* leaves the handler, what was written before stays written
SinkRaises ==
    /\ Emitting
    /\ Raise("SinkError")
    /\ UNCHANGED << mode, in_data, response, todo, names, kind, voted, facts,
                    session_request, warn_filters, ip_type, runs >>

Next ==
    \/ HexdigestCall \/ IpCall \/ DomainCall
    \/ QueryReturns \/ QueryRaises
    \/ HexCheck \/ HexEngine \/ HexVote \/ HexEmit \/ HexReturn
    \/ IpCheck \/ IpResolution \/ IpResolutionsEnd \/ IpDownloaded
    \/ IpDownloadedEnd \/ IpCommunicating \/ IpReturn
    \/ DomainCheck \/ DomainResolution \/ DomainResolutionsEnd
    \/ DomainDownloaded \/ DomainDownloadedEnd \/ DomainCommunicating
    \/ DomainReturn
    \/ SinkRaises

Spec == Init /\ [][Next]_vars

----------------------------------------------------------------------------
(* Classification as a function of the report: two runs over the items of   *)
(* one scans dict, the second in any order                                   *)

\* the orders in which the items of s can be visited
Orders(s) ==
    { [i \in 1..Len(s) |-> s[p[i]]] :
        p \in { q \in [1..Len(s) -> 1..Len(s)] :
                  \A i, j \in 1..Len(s) : i # j => q[i] # q[j] } }

InitClassify ==
    /\ mode = "hexdigest"
    /\ in_data \in HexDigests
    /\ pc = "classify"
    /\ exc = "none"
    /\ exit_status = -1
    /\ response \in { [results |-> [scans |-> s]] : s \in ScansDicts }
    /\ todo = <<>>
    /\ names = {}
    /\ kind = <<>>
    /\ voted = <<>>
    /\ facts = EmptyBag
    /\ session_request = "original"
    /\ warn_filters = "default"
    /\ ip_type = "none"
    /\ runs = <<>>

\* the first run of the classification of handle_hexdigest, from fresh
\* locals, over the items in dict order
ClassifyFirst ==
    /\ pc = "classify" /\ runs = <<>>
    /\ runs' = << Classify(response.results.scans) >>
    /\ UNCHANGED << mode, in_data, pc, exc, exit_status, response, todo, names,
                    kind, voted, facts, session_request, warn_filters, ip_type >>

\* a second run, from fresh locals, over the same items in any order
ClassifyAgain ==
    /\ pc = "classify" /\ Len(runs) = 1
    /\ \E order \in Orders(response.results.scans) :
           runs' = Append(runs, Classify(order))
    /\ UNCHANGED << mode, in_data, pc, exc, exit_status, response, todo, names,
                    kind, voted, facts, session_request, warn_filters, ip_type >>

NextClassify == ClassifyFirst \/ ClassifyAgain

SpecClassify == InitClassify /\ [][NextClassify]_vars

----------------------------------------------------------------------------
(* What the claims speak of *)

\* the scans dict of the file report in hand (its items, in dict order)
Scans == response.results.scans

\* whether the file report in hand carries a scans dict
HasScans ==
    /\ "results" \in DOMAIN response
    /\ "scans" \in DOMAIN response.results

\* the categories of the vocabulary
Categories == { AV_HEURISTICS[i] : i \in 1..Len(AV_HEURISTICS) }

\* the place of a category in AV_HEURISTICS
Declared(h) == CHOOSE i \in 1..Len(AV_HEURISTICS) : AV_HEURISTICS[i] = h

\* of every verdict string of the model, the categories its lower-cased form
\* holds as a substring
CategoriesIn ==
    [r \in { b.result : b \in Bodies } |->
        { h \in Categories : Contains(h, Lower(r)) }]

\* of every category, the items of `items` that count for it: those that are
\* detected and whose lower-cased verdict string holds the category
HitsOf(items) ==
    [h \in Categories |->
        { i \in 1..Len(items) :
            items[i].body.detected /\ h \in CategoriesIn[items[i].body.result] }]

\* the count of every category, given its hits
Counts(hits) == [h \in Categories |-> Cardinality(hits[h])]

\* the categories of the highest count, given the counts
TopCategories(cnt) ==
    { h \in Categories :
        cnt[h] > 0 /\ \A g \in Categories : cnt[g] <= cnt[h] }

\* the least of a set of numbers that is not empty
Least(S) == CHOOSE i \in S : \A j \in S : i <= j

\* handle_hexdigest is past its vote
PastVote ==
    /\ mode = "hexdigest"
    /\ \/ pc = "hex_emit"
       \/ pc = "done" /\ HasScans
       \/ pc = "raised" /\ exc = "SinkError"

\* the isTool fact the spec describes for a label
IsToolFact(label) ==
    [kind |-> "isTool", subtype |-> <<"vt">>,
     source |-> <<"hash", in_data>>, destination |-> <<"tool", label>>]

----------------------------------------------------------------------------
(* C1 *)

\* C1, as stated: whenever the tally is not empty, the category the vote adds
\* has the highest count, and among the categories tied for it, it is the one
\* declared first in AV_HEURISTICS, whatever the order of the engines.
C1_FirstDeclaredWins ==
    (PastVote /\ kind # <<>>) =>
        LET top == TopCategories(Counts(HitsOf(Scans)))
        IN  /\ voted # <<>>
            /\ voted[1] \in top
            /\ \A h \in top : Declared(voted[1]) <= Declared(h)

\* C1, amended: whenever the tally is not empty, the category the vote adds
\* has the highest count, and among the categories tied for it, it is the one
\* counted first: the one whose first matching detected engine comes first in
\* the order the engines are visited, and, among those first matched by the
\* same engine, the one declared first in AV_HEURISTICS.
C1_FirstCountedWins ==
    (PastVote /\ kind # <<>>) =>
        LET hits == HitsOf(Scans)
            top  == TopCategories(Counts(hits))
        IN  /\ voted # <<>>
            /\ voted[1] \in top
            /\ \A h \in top :
                  \/ Least(hits[voted[1]]) < Least(hits[h])
                  \/ /\ Least(hits[voted[1]]) = Least(hits[h])
                     /\ Declared(voted[1]) <= Declared(h)

\* a vote over a tie that the category declared first does not win
C1_Witness ==
    /\ PastVote /\ voted # <<>>
    /\ \E h \in TopCategories(Counts(HitsOf(Scans))) :
          Declared(h) < Declared(voted[1])

----------------------------------------------------------------------------
(* C2 *)

\* C2: name_extraction never raises, so no run of handle_hexdigest ends in an
\* exception raised by name_extraction: at every pass of the engine loop the
\* call returns a name or None for the engine at hand, and no run has ended
\* with the AttributeError of a missing name segment.
C2_ExtractionNeverRaises ==
    /\ exc # "AttributeError"
    /\ (pc = "hex_loop" /\ todo # <<>> /\ todo[1].body.detected) =>
           ~name_extraction(todo[1].engine, todo[1].body).raised

----------------------------------------------------------------------------
(* C3 *)

\* the two engines of the scenario
C3_EngineA ==
    [engine |-> "EngineA", body |-> [detected |-> TRUE, result |-> R_Occamy]]

C3_EngineB ==
    [engine |-> "EngineB", body |-> [detected |-> TRUE, result |-> R_OpenCandy]]

\* handle_hexdigest has returned from the report of the scenario
C3_Scenario ==
    /\ mode = "hexdigest" /\ pc = "done" /\ HasScans
    /\ Len(Scans) = 2
    /\ { Scans[1], Scans[2] } = { C3_EngineA, C3_EngineB }

\* C3, as stated: for the report whose scans are EngineA "Trojan:Win32/Occamy.C"
\* and EngineB "Adware.Win32.OpenCandy.a", the label set is {occamy, adware},
\* the vote adds nothing, and the facts are the two isTool facts of these labels.
C3_OccamyAdware ==
    C3_Scenario =>
        /\ names = {L_occamy, L_adware}
        /\ voted = <<>>
        /\ facts = SetToBag({ IsToolFact(L_occamy), IsToolFact(L_adware) })

\* C3, amended: for that report occamy is never a label (EngineA is neither
\* Microsoft nor Kaspersky, so nothing is extracted from its string) and the
\* vote does add a label: both strings hold a vocabulary term (trojan, adware),
\* one vote each, and the term of the engine visited first wins. With EngineA
\* first, the order of the report as written, the label set is {trojan, adware}
\* and the vote adds trojan; with EngineB first it is {adware} and the vote adds
\* adware. The facts are exactly one isTool fact per label.
C3_TrojanAdware ==
    C3_Scenario =>
        /\ L_occamy \notin names
        /\ Scans[1] = C3_EngineA =>
              names = {L_trojan, L_adware} /\ voted = << L_trojan >>
        /\ Scans[1] = C3_EngineB =>
              names = {L_adware} /\ voted = << L_adware >>
        /\ facts = SetToBag({ IsToolFact(n) : n \in names })

\* the scenario, its engines visited in the order the report is written in
C3_Witness == C3_Scenario /\ Scans[1] = C3_EngineA

----------------------------------------------------------------------------
(* C4 *)

\* handle_hexdigest has looked at a report that carries no scans
C4_NoData ==
    /\ mode = "hexdigest"
    /\ pc \in {"hex_loop", "hex_emit", "done", "raised", "exit"}
    /\ exc # "QueryError"
    /\ ~HasScans

\* C4, as stated: in hash mode a report without `scans`, or without `results`,
\* makes handle_hexdigest return normally: no fact, no exception, exit status 0.
C4_NoDataReturns ==
    C4_NoData =>
        pc = "done" /\ exc = "none" /\ exit_status = 0 /\ facts = EmptyBag

\* C4, amended: in hash mode a report with `results` but without `scans` makes
\* handle_hexdigest return normally: no fact, no exception, exit status 0. A
\* report without `results` makes response['results'] raise KeyError: no fact
\* is written, and the run ends abnormally with exit status 1.
C4_NoScansReturns ==
    C4_NoData =>
        /\ facts = EmptyBag
        /\ IF "results" \in DOMAIN response
           THEN pc = "done" /\ exc = "none" /\ exit_status = 0
           ELSE pc = "raised" /\ exc = "KeyError" /\ exit_status = 1

\* a report with `results` and without `scans` has been handled
C4_Witness == C4_NoData /\ "results" \in DOMAIN response /\ pc = "done"

----------------------------------------------------------------------------
(* C5 *)

\* the run has ended abnormally
Abnormal == pc \in {"raised", "exit"}

----------------------------------------------------------------------------
(* C6 *)

\* C6: when handle_hexdigest has returned, the facts at the sink are exactly
\* one isTool fact per label of the final label set, from hash:<hexdigest> to
\* tool:<label>, and nothing else.
C6_OneFactPerLabel ==
    (mode = "hexdigest" /\ pc = "done") =>
        facts = SetToBag({ IsToolFact(n) : n \in names })

\* handle_hexdigest has returned with three labels or more
C6_Witness == mode = "hexdigest" /\ pc = "done" /\ Cardinality(names) >= 3

----------------------------------------------------------------------------
(* C7 *)

\* the labels one detected engine contributes before the vote: the name
\* extracted from its string, and adware when an override matches
StepLabels ==
    [item \in [engine : Engines, body : Bodies] |->
        LET ext == name_extraction(item.engine, item.body)
        IN  (IF ext.value # <<>> /\ ext.value[1] # <<>> THEN {ext.value[1]} ELSE {})
            \cup (IF is_adware(Lower(item.body.result)) THEN {L_adware} ELSE {})]

\* C7: at every point of the engine loop, the tally entry of each category is
\* the number of engines visited so far that are detected and whose lower-cased
\* verdict string holds the category (one per engine, however often it occurs
\* in the string); the keys of the tally are the categories observed, each
\* once; and the label set holds what the detected engines visited so far
\* contribute, so that an engine that is not detected changes neither.
C7_TallyCountsDetectedEngines ==
    (mode = "hexdigest" /\ pc = "hex_loop") =>
        LET visited == SubSeq(Scans, 1, Len(Scans) - Len(todo))
            hits    == HitsOf(visited)
        IN  /\ \A h \in Categories : KindGet(kind, h) = Cardinality(hits[h])
            /\ KindKeys(kind) = { h \in Categories : hits[h] # {} }
            /\ Len(kind) = Cardinality(KindKeys(kind))
            /\ names = UNION { StepLabels[visited[i]] :
                                 i \in { j \in 1..Len(visited) :
                                           visited[j].body.detected } }

\* the loop has visited an engine that is not detected and an engine whose
\* string holds trojan twice, and trojan counts once
C7_Witness ==
    /\ mode = "hexdigest" /\ pc = "hex_loop" /\ todo = <<>>
    /\ \E i \in 1..Len(Scans) : ~Scans[i].body.detected
    /\ \E i \in 1..Len(Scans) :
          Scans[i].body.detected /\ Scans[i].body.result = R_Multi
    /\ KindGet(kind, L_trojan) = 1

----------------------------------------------------------------------------
(* C8, under SpecClassify *)

\* the set of an Optional
OptSet(o) == { o[i] : i \in 1..Len(o) }

\* C8, as stated: two runs of the classification over the same set of
\* records, each in an order of its own, end alike and give the same label set.
C8_OrderIndependent ==
    Len(runs) = 2 =>
        /\ runs[1].raised = runs[2].raised
        /\ runs[1].labels = runs[2].labels

\* C8, amended: two runs of the classification over the same set of records,
\* each in an order of its own, end alike (both raise or neither does), extract
\* the same names and adware label and count the same tally. The label the
\* vote adds is in each run a category of the highest count, so the two label
\* sets are identical whenever a single category has the highest count or the
\* tally is empty; when several categories tie for it, the label added depends
\* on the order of the visit and the label sets may differ in that one label.
C8_SameUpToVote ==
    Len(runs) = 2 =>
        /\ runs[1].raised = runs[2].raised
        /\ ~runs[1].raised =>
            LET top == TopCategories(Counts(HitsOf(Scans)))
            IN  /\ runs[1].base = runs[2].base
                /\ \A h \in Categories :
                      KindGet(runs[1].kind, h) = KindGet(runs[2].kind, h)
                /\ \A r \in 1..2 :
                      /\ runs[r].labels = runs[r].base \cup OptSet(runs[r].voted)
                      /\ OptSet(runs[r].voted) \subseteq top
                      /\ runs[r].voted = <<>> <=> runs[r].kind = <<>>
                /\ Cardinality(top) <= 1 => runs[1].labels = runs[2].labels

\* two runs over the same records whose label sets differ
C8_Witness ==
    /\ Len(runs) = 2
    /\ ~runs[1].raised /\ ~runs[2].raised
    /\ runs[1].labels # runs[2].labels

----------------------------------------------------------------------------
(* C9 *)

RECURSIVE SeqToBag(_)
\* the bag of the elements of a sequence
SeqToBag(s) ==
    IF s = <<>> THEN EmptyBag ELSE SetToBag({s[1]}) (+) SeqToBag(Tail(s))

\* the facts of a bag that are of kind k
OfKind(bag, k) ==
    [f \in { g \in DOMAIN bag : g.kind = k } |-> bag[f]]

\* the DNSRecord facts the spec describes for the resolution entries of a
\* domain report: one for each entry whose address is valid
C9_DnsFacts(entries) ==
    LET valid == { i \in 1..Len(entries) : IpVersion(entries[i].ip_address) # 0 }
        nth(n) == CHOOSE i \in valid : Cardinality({ j \in valid : j <= i }) = n
    IN  [n \in 1..Cardinality(valid) |->
            [kind |-> "DNSRecord", subtype |-> <<"A">>,
             source |-> <<"fqdn", in_data>>,
             destination |->
                 << IF IpVersion(entries[nth(n)].ip_address) = 4
                    THEN "ipv4" ELSE "ipv6",
                    entries[nth(n)].ip_address >>]]

\* the observation (or usesC2) facts the spec describes for a sample list of
\* a domain report
C9_SampleFacts(samples, k, sub) ==
    [i \in 1..Len(samples) |->
        [kind |-> k, subtype |-> sub,
         source |-> <<"hash", samples[i].sha256>>,
         destination |-> <<"fqdn", in_data>>]]

\* C9: in domain mode a resolution entry whose address is not a valid IPv4 or
\* IPv6 literal is passed over and never ends the run: the only exceptions of
\* a run are a failed query or a failed write to the sink, and sys.exit(1)
\* only answers a response without `results`. Once the resolution loop is over
\* the DNSRecord facts are exactly one fqdn:<domain> -> ipv4/ipv6:<addr> fact
\* per entry with a valid address; and when handle_domain returns, the facts
\* are these plus one observation fact per downloaded sample and one usesC2
\* fact per communicating sample, however many entries were passed over.
C9_InvalidAddressSkipped ==
    mode = "domain" =>
        /\ pc = "raised" => exc \in {"QueryError", "SinkError"}
        /\ pc = "exit" => "results" \notin DOMAIN response
        /\ pc \in {"domain_downloaded", "domain_communicating", "done"} =>
              OfKind(facts, "DNSRecord")
                  = SeqToBag(C9_DnsFacts(ListOf(response.results, "resolutions")))
        /\ pc = "done" =>
              facts = SeqToBag(
                  C9_DnsFacts(ListOf(response.results, "resolutions"))
                  \o C9_SampleFacts(ListOf(response.results,
                                           "detected_downloaded_samples"),
                                    "observation", <<>>)
                  \o C9_SampleFacts(ListOf(response.results,
                                           "detected_communicating_samples"),
                                    "usesC2", <<"fqdn">>))

\* handle_domain has returned from a report with a valid and an invalid
\* resolution entry and a sample in each list
C9_Witness ==
    /\ mode = "domain" /\ pc = "done"
    /\ \E i \in 1..Len(ListOf(response.results, "resolutions")) :
          IpVersion(response.results.resolutions[i].ip_address) = 0
    /\ \E i \in 1..Len(ListOf(response.results, "resolutions")) :
          IpVersion(response.results.resolutions[i].ip_address) # 0
    /\ ListOf(response.results, "detected_downloaded_samples") # <<>>
    /\ ListOf(response.results, "detected_communicating_samples") # <<>>

----------------------------------------------------------------------------
(* C10 *)

\* C10: in every state after the query call has ended, whether it returned or
\* raised, requests.Session.request is the original function again and the
\* warnings filter of the override is gone.
C10_VerificationRestored ==
    pc \notin {"main", "query"} =>
        session_request = "original" /\ warn_filters # "ignore"

====
